---- MODULE Spec2Model ----
(***************************************************************************)
(* Model of benchmark.py, the Ollama model benchmark tool: model           *)
(* resolution (get_benchmark_models), one benchmark run (run_benchmark and *)
(* OllamaResponse.from_chat_response), the rate computation                *)
(* (nanosec_to_sec, inference_stats), the aggregation (average_stats) and  *)
(* the session loop of main().                                             *)
(*                                                                         *)
(* Rates are Python floats in the source.  Here a rate is an exact         *)
(* rational <<numerator, denominator>> in lowest terms, and a division by  *)
(* zero is the ZeroDivisionError Python raises for both int and float.     *)
(***************************************************************************)
EXTENDS Integers, Sequences, FiniteSets, TLC

VARIABLES
    verbose,        \* args.verbose
    test_models,    \* args.models, the requested model names
    available,      \* the model names ollama.list() reports, in its order
    prompts,        \* args.prompts
    pc,             \* position of main(): resolve, model, prompt, average, done, crashed
    error,          \* the exception that left main(), "none" while it runs
    model_names,    \* the resolved model list
    warning,        \* the warning printed by get_benchmark_models
    mi,             \* position of the loop over model_names
    pi,             \* position of the loop over args.prompts
    responses,      \* the result list of the model being benchmarked
    benchmarks,     \* the dict model name -> result list, in insertion order
    ai,             \* position of the loop over benchmarks.items()
    res,            \* <<aggregate>> built by the last average_stats call, <<>> if none
    reports,        \* what inference_stats / average_stats printed, in order
    runs,           \* history: every run_benchmark call, in order, with its result
    streamed,       \* the chunk contents the last run printed while streaming
    lastReply       \* history: what the backend did in the last chat call

vars == << verbose, test_models, available, prompts, pc, error, model_names,
           warning, mi, pi, responses, benchmarks, ai, res, reports, runs,
           streamed, lastReply >>

(***************************************************************************)
(* Bounds of the model.                                                    *)
(***************************************************************************)
MaxModels == 2      \* longest requested list of a session
MaxPrompts == 2     \* longest prompt list of a session
MaxRequested == 2   \* longest requested list given to model resolution alone
MaxAvailable == 2   \* longest backend list given to model resolution alone
MaxRuns == 2        \* longest result list given to averaging alone
MaxChunks == 2      \* longest stream given to one run alone

NanosPerSec == 1000000000

\* Every duration the backend reports in this model is a multiple of Tick.
Tick == NanosPerSec \div 10

Range(s) == { s[i] : i \in 1..Len(s) }

SeqsUpTo(S, n) == UNION { [1..k -> S] : k \in 0..n }

(***************************************************************************)
(* Exact rationals standing for Python's floats.                           *)
(***************************************************************************)
RECURSIVE GCD(_, _)
GCD(a, b) == IF b = 0 THEN a ELSE GCD(b, a % b)

Reduce(q) == LET g == GCD(q[1], q[2]) IN << q[1] \div g, q[2] \div g >>

\* n / 1_000_000_000
nanosec_to_sec(nanosec) == Reduce(<< nanosec, NanosPerSec >>)

\* count / seconds, for seconds # 0
Over(count, sec) == Reduce(<< count * sec[2], sec[1] >>)

(***************************************************************************)
(* OllamaResponse.from_chat_response: every field is copied from the raw   *)
(* response; pydantic raises a ValidationError when a required int field   *)
(* is None (has_metrics = FALSE stands for a raw response whose timing     *)
(* fields are None, as in the intermediate chunks of a stream).            *)
(***************************************************************************)
from_chat_response(response) ==
    IF ~response.has_metrics
    THEN [raised |-> TRUE, value |-> << >>]
    ELSE [raised |-> FALSE,
          value |-> << [model |-> response.model,
                        role |-> "assistant",
                        content |-> response.content,
                        done |-> response.done,
                        total_duration |-> response.total_duration,
                        load_duration |-> response.load_duration,
                        prompt_eval_count |-> response.prompt_eval_count,
                        prompt_eval_duration |-> response.prompt_eval_duration,
                        eval_count |-> response.eval_count,
                        eval_duration |-> response.eval_duration] >>]

\* The response the backend builds for model_name out of a chunk.
Stamp(model_name, chunk) ==
    [model |-> model_name,
     content |-> chunk.content,
     done |-> chunk.done,
     has_metrics |-> chunk.has_metrics,
     total_duration |-> chunk.total_duration,
     load_duration |-> chunk.load_duration,
     prompt_eval_count |-> chunk.prompt_eval_count,
     prompt_eval_duration |-> chunk.prompt_eval_duration,
     eval_count |-> chunk.eval_count,
     eval_duration |-> chunk.eval_duration]

\* Mutant of StreamLoop: last_element is set by the first chunk only.
RECURSIVE StreamLoopKeepsFirst(_, _, _, _)
StreamLoopKeepsFirst(stream, i, last, printed) ==
    IF i > Len(stream)
    THEN [last |-> last, printed |-> printed]
    ELSE StreamLoopKeepsFirst(stream, i + 1,
                              IF last = << >> THEN << stream[i] >> ELSE last,
                              Append(printed, stream[i].content))

(***************************************************************************)
(* The loop `for chunk in stream` of run_benchmark: prints each chunk's    *)
(* content and keeps the chunk in last_element.  last is << >> for None.   *)
(***************************************************************************)
RECURSIVE StreamLoop(_, _, _, _)
StreamLoop(stream, i, last, printed) ==
    IF i > Len(stream)
    THEN [last |-> last, printed |-> printed]
    ELSE StreamLoop(stream, i + 1, << stream[i] >>,
                    Append(printed, stream[i].content))

(***************************************************************************)
(* run_benchmark.  reply is what ollama.chat does: it yields reply.chunks  *)
(* (one response in batch mode) and then raises if reply.raises.  The      *)
(* result is << >> for None, <<record>> otherwise.                         *)
(***************************************************************************)
run_benchmark(model_name, reply, verbose_) ==
    LET stream == [i \in 1..Len(reply.chunks) |-> Stamp(model_name, reply.chunks[i])]
        loop == IF verbose_
                THEN StreamLoop(stream, 1, << >>, << >>)
                ELSE [last |-> IF reply.raises THEN << >> ELSE << stream[1] >>,
                      printed |-> << >>]
        norm == from_chat_response(loop.last[1])
    IN  IF reply.raises
        THEN [result |-> << >>, printed |-> loop.printed, cause |-> "chat raised"]
        ELSE IF loop.last = << >>
        THEN [result |-> << >>, printed |-> loop.printed, cause |-> "no response"]
        ELSE IF norm.raised
        THEN [result |-> << >>, printed |-> loop.printed, cause |-> "validation"]
        ELSE [result |-> norm.value, printed |-> loop.printed, cause |-> "none"]

\* Mutant of inference_stats: the combined rate is the mean of the prompt
\* rate and the generation rate instead of summed counts over summed time.
inference_stats_mean_of_rates(model_response) ==
    IF model_response.prompt_eval_duration = 0
       \/ model_response.eval_duration = 0
    THEN [raised |-> TRUE, printed |-> << >>]
    ELSE LET p == Over(model_response.prompt_eval_count,
                       nanosec_to_sec(model_response.prompt_eval_duration))
             g == Over(model_response.eval_count,
                       nanosec_to_sec(model_response.eval_duration))
         IN [raised |-> FALSE,
             printed |-> <<
               [kind |-> "stats",
                model |-> model_response.model,
                prompt_ts |-> p,
                response_ts |-> g,
                total_ts |-> Reduce(<< p[1] * g[2] + g[1] * p[2], 2 * p[2] * g[2] >>),
                input_tokens |-> model_response.prompt_eval_count,
                generated_tokens |-> model_response.eval_count,
                load_time |-> nanosec_to_sec(model_response.load_duration),
                processing_time |-> nanosec_to_sec(model_response.prompt_eval_duration),
                generation_time |-> nanosec_to_sec(model_response.eval_duration),
                total_time |-> nanosec_to_sec(model_response.total_duration)] >>]

(***************************************************************************)
(* inference_stats: the three rates, then the printed block.  The first    *)
(* division by a zero duration raises ZeroDivisionError and nothing is     *)
(* printed.                                                                *)
(***************************************************************************)
inference_stats(model_response) ==
    IF model_response.prompt_eval_duration = 0
       \/ model_response.eval_duration = 0
       \/ model_response.prompt_eval_duration + model_response.eval_duration = 0
    THEN [raised |-> TRUE, printed |-> << >>]
    ELSE [raised |-> FALSE,
          printed |-> <<
            [kind |-> "stats",
             model |-> model_response.model,
             prompt_ts |-> Over(model_response.prompt_eval_count,
                                nanosec_to_sec(model_response.prompt_eval_duration)),
             response_ts |-> Over(model_response.eval_count,
                                  nanosec_to_sec(model_response.eval_duration)),
             total_ts |-> Over(model_response.prompt_eval_count
                                 + model_response.eval_count,
                               nanosec_to_sec(model_response.prompt_eval_duration
                                              + model_response.eval_duration)),
             input_tokens |-> model_response.prompt_eval_count,
             generated_tokens |-> model_response.eval_count,
             load_time |-> nanosec_to_sec(model_response.load_duration),
             processing_time |-> nanosec_to_sec(model_response.prompt_eval_duration),
             generation_time |-> nanosec_to_sec(model_response.eval_duration),
             total_time |-> nanosec_to_sec(model_response.total_duration)] >>]

(***************************************************************************)
(* average_stats: nothing but a message for an empty list; otherwise one   *)
(* OllamaResponse whose durations and counts are the sums over the list,   *)
(* then "Average stats:" and inference_stats of it.  created_at is left    *)
(* out (it takes no part in any computation).                              *)
(***************************************************************************)
RECURSIVE sum(_, _)
sum(rs, field) ==
    IF rs = << >> THEN 0 ELSE Head(rs)[field] + sum(Tail(rs), field)

\* Mutant of average_stats: every field is the mean over the list, not the sum.
average_stats_mean(rs) ==
    IF rs = << >>
    THEN [raised |-> FALSE, res |-> << >>,
          printed |-> << [kind |-> "No stats to average"] >>]
    ELSE LET agg == [model |-> rs[1].model,
                     role |-> "system",
                     content |-> << "Average stats across", Len(rs), "runs" >>,
                     done |-> TRUE,
                     total_duration |-> sum(rs, "total_duration") \div Len(rs),
                     load_duration |-> sum(rs, "load_duration") \div Len(rs),
                     prompt_eval_count |-> sum(rs, "prompt_eval_count") \div Len(rs),
                     prompt_eval_duration |-> sum(rs, "prompt_eval_duration") \div Len(rs),
                     eval_count |-> sum(rs, "eval_count") \div Len(rs),
                     eval_duration |-> sum(rs, "eval_duration") \div Len(rs)]
             stats == inference_stats(agg)
         IN  [raised |-> stats.raised, res |-> << agg >>,
              printed |-> << [kind |-> "Average stats:"] >> \o stats.printed]

average_stats(rs) ==
    IF rs = << >>
    THEN [raised |-> FALSE, res |-> << >>,
          printed |-> << [kind |-> "No stats to average"] >>]
    ELSE LET agg == [model |-> rs[1].model,
                     role |-> "system",
                     content |-> << "Average stats across", Len(rs), "runs" >>,
                     done |-> TRUE,
                     total_duration |-> sum(rs, "total_duration"),
                     load_duration |-> sum(rs, "load_duration"),
                     prompt_eval_count |-> sum(rs, "prompt_eval_count"),
                     prompt_eval_duration |-> sum(rs, "prompt_eval_duration"),
                     eval_count |-> sum(rs, "eval_count"),
                     eval_duration |-> sum(rs, "eval_duration")]
             stats == inference_stats(agg)
         IN  [raised |-> stats.raised, res |-> << agg >>,
              printed |-> << [kind |-> "Average stats:"] >> \o stats.printed]

(***************************************************************************)
(* get_benchmark_models, given what ollama.list() returned.                *)
(***************************************************************************)
RECURSIVE Keep(_, _)
\* [model for model in test_models if model in available_models]
Keep(requested, available_models) ==
    IF requested = << >>
    THEN << >>
    ELSE (IF Head(requested) \in Range(available_models)
          THEN << Head(requested) >> ELSE << >>)
         \o Keep(Tail(requested), available_models)

\* Mutant of get_benchmark_models: the filter walks the backend's list.
get_benchmark_models_backend_order(requested, available_models) ==
    IF requested = << >>
    THEN [names |-> available_models, warned |-> FALSE, missing |-> {}]
    ELSE LET names == Keep(available_models, requested)
             short == Len(names) < Len(requested)
         IN  [names |-> names,
              warned |-> short,
              missing |-> IF short
                          THEN Range(requested) \ Range(available_models)
                          ELSE {}]

get_benchmark_models(requested, available_models) ==
    IF requested = << >>
    THEN [names |-> available_models, warned |-> FALSE, missing |-> {}]
    ELSE LET names == Keep(requested, available_models)
             short == Len(names) < Len(requested)
         IN  [names |-> names,
              warned |-> short,
              missing |-> IF short
                          THEN Range(requested) \ Range(available_models)
                          ELSE {}]

(***************************************************************************)
(* benchmarks[model_name] = responses on a dict that keeps insertion       *)
(* order: an existing key keeps its place and gets the new value.          *)
(***************************************************************************)
DictSet(d, k, v) ==
    IF \E i \in 1..Len(d) : d[i].key = k
    THEN [i \in 1..Len(d) |-> IF d[i].key = k THEN [key |-> k, val |-> v] ELSE d[i]]
    ELSE Append(d, [key |-> k, val |-> v])

(***************************************************************************)
(* What the backend may answer.                                            *)
(***************************************************************************)
Chunk(content, done, has_metrics, pcount, pdur, ecount, edur, load) ==
    [content |-> content, done |-> done, has_metrics |-> has_metrics,
     total_duration |-> load + pdur + edur, load_duration |-> load,
     prompt_eval_count |-> pcount, prompt_eval_duration |-> pdur,
     eval_count |-> ecount, eval_duration |-> edur]

\* An intermediate chunk of a stream: content only, timing fields None.
Partial(content) == Chunk(content, FALSE, FALSE, 0, 0, 0, 0, 0)

NoReply == [chunks |-> << >>, raises |-> FALSE]
ChatRaises == [chunks |-> << >>, raises |-> TRUE]

\* The answers of a session: complete, zero prompt-eval time, zero eval
\* time, not done, and without timing fields.
SessionChunks ==
    { Chunk("x", TRUE, TRUE, 1, Tick, 1, Tick, 0),
      Chunk("x", TRUE, TRUE, 1, 0, 1, Tick, 0),
      Chunk("x", TRUE, TRUE, 1, Tick, 1, 0, 0),
      Chunk("x", FALSE, TRUE, 1, Tick, 1, Tick, 0),
      Partial("x") }

SessionBatchReplies ==
    { ChatRaises } \cup { [chunks |-> << c >>, raises |-> FALSE] : c \in SessionChunks }

SessionStreamReplies ==
    { ChatRaises, NoReply }
    \cup { [chunks |-> << Partial("x"), c >>, raises |-> FALSE] : c \in SessionChunks }

\* The answers to one run checked alone.
RunChunks ==
    { Partial(c) : c \in {"x", "y"} }
    \cup { Chunk(c, d, TRUE, 1, Tick, n, Tick, 0) :
             c \in {"x", "y"}, d \in BOOLEAN, n \in {1, 2} }

RunBatchReplies ==
    { ChatRaises } \cup { [chunks |-> << c >>, raises |-> FALSE] : c \in RunChunks }

RunStreamReplies ==
    { [chunks |-> s, raises |-> r] : s \in SeqsUpTo(RunChunks, MaxChunks), r \in BOOLEAN }

\* The records of a result list averaged alone.
AvgRecords ==
    { from_chat_response(
          Stamp("a", Chunk("x", TRUE, TRUE, n, pd, 3, ed, ld))).value[1] :
        n \in {1, 2}, pd \in {0, Tick, 2 * Tick}, ed \in {0, Tick}, ld \in {0, Tick} }

ModelNames == {"a", "b"}
ResolveNames == {"a", "b", "c"}

(***************************************************************************)
(* main()                                                                  *)
(***************************************************************************)
Fresh ==
    /\ error = "none"
    /\ model_names = << >>
    /\ warning = [warned |-> FALSE, missing |-> {}]
    /\ mi = 1
    /\ pi = 1
    /\ responses = << >>
    /\ benchmarks = << >>
    /\ ai = 1
    /\ res = << >>
    /\ reports = << >>
    /\ runs = << >>
    /\ streamed = << >>
    /\ lastReply = NoReply

Init ==
    /\ verbose \in BOOLEAN
    /\ test_models \in SeqsUpTo(ModelNames, MaxModels)
    /\ available \in { << "a" >>, << "a", "b" >> }
    /\ prompts \in { [i \in 1..n |-> i] : n \in 0..MaxPrompts }
    /\ pc = "resolve"
    /\ Fresh

\* ollama.list() raises: the exception leaves get_benchmark_models and main.
DiscoveryFails ==
    /\ pc = "resolve"
    /\ pc' = "crashed"
    /\ error' = "list raised"
    /\ UNCHANGED << verbose, test_models, available, prompts, model_names, warning,
                    mi, pi, responses, benchmarks, ai, res, reports, runs,
                    streamed, lastReply >>

\* model_names = get_benchmark_models(args.models); benchmarks = {}
Resolve ==
    /\ pc = "resolve"
    /\ LET r == get_benchmark_models(test_models, available)
       IN  /\ model_names' = r.names
           /\ warning' = [warned |-> r.warned, missing |-> r.missing]
    /\ benchmarks' = << >>
    /\ mi' = 1
    /\ pc' = "model"
    /\ UNCHANGED << verbose, test_models, available, prompts, error, pi, responses,
                    ai, res, reports, runs, streamed, lastReply >>

\* for model_name in model_names: responses = []
NextModel ==
    /\ pc = "model"
    /\ mi <= Len(model_names)
    /\ responses' = << >>
    /\ pi' = 1
    /\ pc' = "prompt"
    /\ UNCHANGED << verbose, test_models, available, prompts, error, model_names,
                    warning, mi, benchmarks, ai, res, reports, runs, streamed,
                    lastReply >>

\* One pass of the loop over args.prompts: run_benchmark, the append and,
\* when verbose, inference_stats of the new record.
RunPrompt(batch, stream) ==
    /\ pc = "prompt"
    /\ pi <= Len(prompts)
    /\ \E reply \in (IF verbose THEN stream ELSE batch) :
         LET model_name == model_names[mi]
             out == run_benchmark(model_name, reply, verbose)
             ok == out.result # << >>
             stats == inference_stats(out.result[1])
             crash == ok /\ verbose /\ stats.raised
         IN  /\ lastReply' = reply
             /\ streamed' = out.printed
             /\ runs' = Append(runs, [model |-> model_name, prompt |-> prompts[pi],
                                      pass |-> mi, result |-> out.result,
                                      cause |-> out.cause])
             /\ responses' = IF ok THEN Append(responses, out.result[1]) ELSE responses
             /\ reports' = IF ok /\ verbose /\ ~stats.raised
                           THEN reports \o stats.printed ELSE reports
             /\ pc' = IF crash THEN "crashed" ELSE "prompt"
             /\ error' = IF crash THEN "ZeroDivisionError" ELSE error
             /\ pi' = IF crash THEN pi ELSE pi + 1
    /\ UNCHANGED << verbose, test_models, available, prompts, model_names, warning,
                    mi, benchmarks, ai, res >>

\* benchmarks[model_name] = responses, after the last prompt
StoreModel ==
    /\ pc = "prompt"
    /\ pi > Len(prompts)
    /\ benchmarks' = DictSet(benchmarks, model_names[mi], responses)
    /\ mi' = mi + 1
    /\ pc' = "model"
    /\ UNCHANGED << verbose, test_models, available, prompts, error, model_names,
                    warning, pi, responses, ai, res, reports, runs, streamed,
                    lastReply >>

\* the loop over model_names is exhausted
ModelsDone ==
    /\ pc = "model"
    /\ mi > Len(model_names)
    /\ ai' = 1
    /\ pc' = "average"
    /\ UNCHANGED << verbose, test_models, available, prompts, error, model_names,
                    warning, mi, pi, responses, benchmarks, res, reports, runs,
                    streamed, lastReply >>

\* for model_name, responses in benchmarks.items(): average_stats(responses)
Average ==
    /\ pc = "average"
    /\ ai <= Len(benchmarks)
    /\ LET out == average_stats(benchmarks[ai].val)
       IN  /\ res' = out.res
           /\ reports' = reports \o out.printed
           /\ pc' = IF out.raised THEN "crashed" ELSE "average"
           /\ error' = IF out.raised THEN "ZeroDivisionError" ELSE error
           /\ ai' = IF out.raised THEN ai ELSE ai + 1
    /\ UNCHANGED << verbose, test_models, available, prompts, model_names, warning,
                    mi, pi, responses, benchmarks, runs, streamed, lastReply >>

\* main() returns
Finish ==
    /\ pc = "average"
    /\ ai > Len(benchmarks)
    /\ pc' = "done"
    /\ UNCHANGED << verbose, test_models, available, prompts, error, model_names,
                    warning, mi, pi, responses, benchmarks, ai, res, reports, runs,
                    streamed, lastReply >>

Next ==
    \/ DiscoveryFails
    \/ Resolve
    \/ NextModel
    \/ RunPrompt(SessionBatchReplies, SessionStreamReplies)
    \/ StoreModel
    \/ ModelsDone
    \/ Average
    \/ Finish

Spec == Init /\ [][Next]_vars

(***************************************************************************)
(* get_benchmark_models alone, over every requested and available list.    *)
(***************************************************************************)
InitResolve ==
    /\ verbose = FALSE
    /\ test_models \in SeqsUpTo(ResolveNames, MaxRequested)
    /\ available \in SeqsUpTo(ResolveNames, MaxAvailable)
    /\ prompts = << >>
    /\ pc = "resolve"
    /\ Fresh

NextResolve == DiscoveryFails \/ Resolve

SpecResolve == InitResolve /\ [][NextResolve]_vars

(***************************************************************************)
(* One run_benchmark call alone, over every reply of the backend.          *)
(***************************************************************************)
InitRun ==
    /\ verbose \in BOOLEAN
    /\ test_models = << "a" >>
    /\ available = << "a" >>
    /\ prompts = << 1 >>
    /\ pc = "prompt"
    /\ error = "none"
    /\ model_names = << "a" >>
    /\ warning = [warned |-> FALSE, missing |-> {}]
    /\ mi = 1
    /\ pi = 1
    /\ responses = << >>
    /\ benchmarks = << >>
    /\ ai = 1
    /\ res = << >>
    /\ reports = << >>
    /\ runs = << >>
    /\ streamed = << >>
    /\ lastReply = NoReply

NextRun == RunPrompt(RunBatchReplies, RunStreamReplies) \/ StoreModel

SpecRun == InitRun /\ [][NextRun]_vars

(***************************************************************************)
(* The averaging loop alone, over every result list of one model.          *)
(***************************************************************************)
InitAverage ==
    /\ verbose = FALSE
    /\ test_models = << "a" >>
    /\ available = << "a" >>
    /\ prompts = << >>
    /\ pc = "average"
    /\ error = "none"
    /\ model_names = << "a" >>
    /\ warning = [warned |-> FALSE, missing |-> {}]
    /\ mi = 2
    /\ pi = 1
    /\ responses = << >>
    /\ benchmarks \in { << [key |-> "a", val |-> rs] >> : rs \in SeqsUpTo(AvgRecords, MaxRuns) }
    /\ ai = 1
    /\ res = << >>
    /\ reports = << >>
    /\ runs = << >>
    /\ streamed = << >>
    /\ lastReply = NoReply

NextAverage == Average \/ Finish

SpecAverage == InitAverage /\ [][NextAverage]_vars

(***************************************************************************)
(* Properties.                                                             *)
(***************************************************************************)
Ended == pc \in {"done", "crashed"}

Listed == error # "list raised"

\* the runs of model m that returned a record, in the order they were made
RECURSIVE Successes(_, _)
Successes(rr, m) ==
    IF rr = << >>
    THEN << >>
    ELSE (IF Head(rr).model = m THEN Head(rr).result ELSE << >>)
         \o Successes(Tail(rr), m)

RECURSIVE Total(_, _, _)
Total(rs, field, n) == IF n = 0 THEN 0 ELSE rs[n][field] + Total(rs, field, n - 1)

\* the averaging loop has called average_stats at least once
Averaged ==
    \/ pc \in {"average", "done"} /\ ai > 1
    \/ pc = "crashed" /\ error = "ZeroDivisionError" /\ mi > Len(model_names)

\* the list given to the last average_stats call
LastAveraged == IF pc = "crashed" THEN benchmarks[ai].val ELSE benchmarks[ai - 1].val

\* C1: a failed run never stops the session: once the session has ended,
\* every (model, prompt) pair that comes after a failed run in the order of
\* the loops was sent to the backend.
C1_FailedRunNeverStopsSession ==
    (Ended /\ Listed) =>
        \A k \in 1..Len(runs) :
            runs[k].result = << >> =>
                \A m \in 1..Len(model_names), p \in 1..Len(prompts) :
                    (m > runs[k].pass \/ (m = runs[k].pass /\ p > runs[k].prompt)) =>
                        \E j \in 1..Len(runs) :
                            runs[j].pass = m /\ runs[j].prompt = prompts[p]

\* C2: only a failure to list the backend's models ends the session before
\* every pair has been processed and every model's average reported.
C2_OnlyDiscoveryFailureEndsSession ==
    pc = "crashed" => error = "list raised"

\* the records inference_stats has been called on
StatsCalls ==
    (IF verbose
     THEN { runs[k].result[1] : k \in { j \in 1..Len(runs) : runs[j].result # << >> } }
     ELSE {})
    \cup (IF Averaged THEN Range(res) ELSE {})

\* C3: a zero prompt-eval or eval duration costs a record only the rate
\* lines that are undefined: the rest of its report (token counts and times)
\* is still printed.
C3_ZeroDurationKeepsReport ==
    \A r \in StatsCalls :
        (r.prompt_eval_duration = 0 \/ r.eval_duration = 0) =>
            \E i \in 1..Len(reports) :
                /\ reports[i].kind = "stats"
                /\ reports[i].model = r.model
                /\ reports[i].input_tokens = r.prompt_eval_count
                /\ reports[i].generated_tokens = r.eval_count
                /\ reports[i].processing_time = nanosec_to_sec(r.prompt_eval_duration)
                /\ reports[i].generation_time = nanosec_to_sec(r.eval_duration)

\* C4: a raw response with done = false is rejected: every run that returned
\* a record, and so every record of a result list, has done = true.
C4_NotDoneIsRejected ==
    /\ \A k \in 1..Len(runs) :
          runs[k].result # << >> => runs[k].result[1].done
    /\ \A i \in 1..Len(responses) : responses[i].done
    /\ \A i \in 1..Len(benchmarks) :
          \A j \in 1..Len(benchmarks[i].val) : benchmarks[i].val[j].done

\* C5: model resolution returns the backend's list when nothing is
\* requested; otherwise the requested names that are available, in requested
\* order, with a warning exactly when a requested name is unavailable, which
\* names every such name; and no unavailable name halts the session.
C5_ModelResolution ==
    /\ pc = "crashed" => error = "list raised"
    /\ pc = "model" =>
         LET IsAvailable(m) == m \in Range(available)
             Unavailable == { m \in Range(test_models) : ~IsAvailable(m) }
         IN  /\ test_models = << >> => model_names = available
             /\ test_models # << >> =>
                  /\ model_names = SelectSeq(test_models, IsAvailable)
                  /\ warning.warned <=> Unavailable # {}
                  /\ warning.warned => Unavailable \subseteq warning.missing

C5_Witness ==
    /\ pc = "model"
    /\ Len(test_models) = 2
    /\ Len(available) = 2
    /\ warning.warned
    /\ model_names # << >>
    /\ model_names[1] = available[2]

\* C6: averaging an empty list builds no aggregate and divides nothing;
\* averaging N >= 1 records builds one aggregate whose durations and counts
\* are the sums over the N records, whose note states N and which is done.
C6_AverageIsSum ==
    Averaged =>
        LET rs == LastAveraged
            n == Len(rs)
        IN  /\ rs = << >> =>
                 /\ res = << >>
                 /\ pc # "crashed"
                 /\ reports[Len(reports)].kind = "No stats to average"
            /\ rs # << >> =>
                 /\ Len(res) = 1
                 /\ res[1].total_duration = Total(rs, "total_duration", n)
                 /\ res[1].load_duration = Total(rs, "load_duration", n)
                 /\ res[1].prompt_eval_duration = Total(rs, "prompt_eval_duration", n)
                 /\ res[1].eval_duration = Total(rs, "eval_duration", n)
                 /\ res[1].prompt_eval_count = Total(rs, "prompt_eval_count", n)
                 /\ res[1].eval_count = Total(rs, "eval_count", n)
                 /\ res[1].content[2] = n
                 /\ res[1].done

C6_Witness ==
    /\ Averaged
    /\ Len(LastAveraged) = 2
    /\ LastAveraged[1].load_duration > 0
    /\ LastAveraged[2].load_duration > 0
    /\ LastAveraged[1].prompt_eval_count # LastAveraged[2].prompt_eval_count
    /\ Len(res) = 1

\* rate * nanos = count * 10^9, both sides divided by Tick (every duration
\* is a multiple of Tick)
IsRate(rate, count, nanos) ==
    rate[1] * (nanos \div Tick) = count * (NanosPerSec \div Tick) * rate[2]

\* C7: for N >= 1 records with positive summed durations the reported
\* aggregate rates are ratios of sums: rate * (sum of nanos) = (sum of
\* counts) * 10^9 for the prompt, the generation and the combined rate.
C7_RatesAreRatiosOfSums ==
    LET rs == LastAveraged
        n == Len(rs)
        pcount == Total(rs, "prompt_eval_count", n)
        pnanos == Total(rs, "prompt_eval_duration", n)
        ecount == Total(rs, "eval_count", n)
        enanos == Total(rs, "eval_duration", n)
        shown == reports[Len(reports)]
    IN  (Averaged /\ n >= 1 /\ pnanos > 0 /\ enanos > 0) =>
            /\ pc # "crashed"
            /\ shown.kind = "stats"
            /\ IsRate(shown.prompt_ts, pcount, pnanos)
            /\ IsRate(shown.response_ts, ecount, enanos)
            /\ IsRate(shown.total_ts, pcount + ecount, pnanos + enanos)

C7_Witness ==
    /\ Averaged
    /\ Len(LastAveraged) = 2
    /\ LastAveraged[1].prompt_eval_duration = Tick
    /\ LastAveraged[2].prompt_eval_duration = 2 * Tick
    /\ LastAveraged[1].prompt_eval_count = 2
    /\ LastAveraged[2].prompt_eval_count = 1
    /\ LastAveraged[1].eval_duration > 0
    /\ reports # << >>
    /\ reports[Len(reports)].kind = "stats"

\* the result list of model m: the list being filled while m is benchmarked,
\* what benchmarks holds for m otherwise
ResultList(m) ==
    IF pc \in {"prompt", "crashed"} /\ mi <= Len(model_names) /\ model_names[mi] = m
    THEN responses
    ELSE IF \E i \in 1..Len(benchmarks) : benchmarks[i].key = m
    THEN benchmarks[CHOOSE i \in 1..Len(benchmarks) : benchmarks[i].key = m].val
    ELSE << >>

\* C8: requests are issued one at a time in (model, prompt) order, and at
\* every point each model's result list is, in submission order, the
\* successful runs among the prompts already processed for that model.
C8_SequentialOrderedResults ==
    /\ \A k \in 1..Len(runs) :
          /\ runs[k].pass = ((k - 1) \div Len(prompts)) + 1
          /\ runs[k].prompt = prompts[((k - 1) % Len(prompts)) + 1]
          /\ runs[k].model = model_names[runs[k].pass]
    /\ \A m \in Range(model_names) : ResultList(m) = Successes(runs, m)

\* C9: when the session ends, each benchmarked model's aggregate states as N
\* the number of runs of that model that succeeded, leaves none of them out,
\* and a model without a successful run is reported without statistics.
C9_AccurateRunCounts ==
    pc = "done" =>
        \A i \in 1..Len(benchmarks) :
            LET ok == Successes(runs, benchmarks[i].key)
                out == average_stats(benchmarks[i].val)
            IN  /\ ok = << >> => out.res = << >>
                /\ ok # << >> =>
                     /\ out.res # << >>
                     /\ out.res[1].content[2] = Len(ok)
                     /\ out.res[1].eval_count = Total(ok, "eval_count", Len(ok))

\* C10: in streaming mode each chunk's content is forwarded in arrival
\* order, the record of the run is the normalization of the last chunk and
\* of no other, and an empty stream fails the run with nothing recorded.
C10_StreamKeepsLastChunk ==
    (verbose /\ runs # << >>) =>
        LET chunks == lastReply.chunks
            run == runs[Len(runs)]
        IN  /\ streamed = [i \in 1..Len(chunks) |-> chunks[i].content]
            /\ chunks = << >> => run.result = << >> /\ responses = << >>
            /\ run.result # << >> =>
                 /\ ~lastReply.raises
                 /\ run.result = from_chat_response(
                                     Stamp(run.model, chunks[Len(chunks)])).value
                 /\ responses = run.result
            /\ run.result = << >> => responses = << >>

C10_Witness ==
    /\ verbose
    /\ runs # << >>
    /\ Len(lastReply.chunks) = 2
    /\ lastReply.chunks[1].has_metrics
    /\ lastReply.chunks[1].eval_count # lastReply.chunks[2].eval_count
    /\ lastReply.chunks[1].content # lastReply.chunks[2].content
    /\ Len(responses) = 1
    /\ streamed = << "x", "y" >>

====
